---- MODULE Spec2Model ----
(***************************************************************************)
(* Model of frontend/finalize_migration.py: the toast({...}) -> showX(...) *)
(* rewriting script.                                                       *)
(*                                                                         *)
(* Text is a sequence of tokens.  A token is a string standing for the     *)
(* characters it spells: "toast", "(", "{", " ", "\n", "title:", "\"",     *)
(* "Oops", ...  The regular expressions of the script are translated into  *)
(* scanners over such sequences; every scanner does what Python's re does  *)
(* on the spelled-out characters (leftmost match, greedy/lazy repetition,  *)
(* non-overlapping substitution).                                          *)
(***************************************************************************)
EXTENDS Integers, Sequences, FiniteSets, TLC

----------------------------------------------------------------------------
(* Character classes and small scanners                                    *)

\* \s of Python's re, on the tokens of the model
IsSpace(t) == t \in {" ", "\n", "\r", "\r\n"}

\* the two quote characters of the class ["\']
IsQuote(t) == t \in {"\"", "'"}

\* s[i] exists and is the token t
At(s, i, t) == i <= Len(s) /\ s[i] = t

\* \s* from position i: the first position at or after i that holds no space
RECURSIVE SkipSpace(_, _)
SkipSpace(s, i) ==
    IF i <= Len(s) /\ IsSpace(s[i]) THEN SkipSpace(s, i + 1) ELSE i

\* the position of the first token t at or after i, 0 when there is none
RECURSIVE IndexFrom(_, _, _)
IndexFrom(s, i, t) ==
    IF i > Len(s) THEN 0
    ELSE IF s[i] = t THEN i
    ELSE IndexFrom(s, i + 1, t)

\* s[i..j-1]
Slice(s, i, j) == SubSeq(s, i, j - 1)

----------------------------------------------------------------------------
(* replace_toast_multiline                                                 *)

\* r'toast\s*\(\s*\{' matched at i: the position after the "{", 0 for no match
OpenAt(s, i) ==
    IF ~At(s, i, "toast") THEN 0
    ELSE LET j == SkipSpace(s, i + 1) IN
         IF ~At(s, j, "(") THEN 0
         ELSE LET k == SkipSpace(s, j + 1) IN
              IF At(s, k, "{") THEN k + 1 ELSE 0

\* pattern = r'toast\s*\(\s*\{([^}]+)\}\s*\)' matched at i.
\* [^}]+ runs to the first "}" and needs one character; then \s* and ")".
\* The result is [ok, from, to, end]: group(1) is s[from..to-1] and the match
\* is s[i..end-1].
MatchCallAt(s, i) ==
    LET o == OpenAt(s, i)
        c == IF o = 0 THEN 0 ELSE IndexFrom(s, o, "}")
        p == IF c = 0 THEN 0 ELSE SkipSpace(s, c + 1)
    IN  IF o # 0 /\ c > o /\ At(s, p, ")")
        THEN [ok |-> TRUE, from |-> o, to |-> c, end |-> p + 1]
        ELSE [ok |-> FALSE, from |-> 0, to |-> 0, end |-> 0]

\* (?:[^"\'\\]|\\.)*? from k: the position of the first quote character that
\* no backslash escapes, 0 when the text ends first.  "." is not the newline.
RECURSIVE QuoteEnd(_, _)
QuoteEnd(s, k) ==
    IF k > Len(s) THEN 0
    ELSE IF s[k] = "\\"
         THEN IF k + 1 <= Len(s) /\ s[k + 1] # "\n" THEN QuoteEnd(s, k + 2) ELSE 0
    ELSE IF IsQuote(s[k]) THEN k
    ELSE QuoteEnd(s, k + 1)

\* key\s*(["\'])((?:[^"\'\\]|\\.)*?)\1 matched at i: the literal
\* group(1) group(2) group(1) as the callback rebuilds it, <<>> for no match
QuotedAt(s, i, key) ==
    IF ~At(s, i, key) THEN <<>>
    ELSE LET j == SkipSpace(s, i + 1) IN
         IF ~(j <= Len(s) /\ IsQuote(s[j])) THEN <<>>
         ELSE LET e == QuoteEnd(s, j + 1) IN
              IF e # 0 /\ s[e] = s[j] THEN SubSeq(s, j, e) ELSE <<>>

\* key\s*BACKTICK([^BACKTICK]*)BACKTICK matched at i: the literal with its
\* two backticks, <<>> for no match.  The token "BACKTICK" spells the backtick.
TemplateAt(s, i, key) ==
    IF ~At(s, i, key) THEN <<>>
    ELSE LET j == SkipSpace(s, i + 1) IN
         IF ~At(s, j, "BACKTICK") THEN <<>>
         ELSE LET e == IndexFrom(s, j + 1, "BACKTICK") IN
              IF e # 0 THEN SubSeq(s, j, e) ELSE <<>>

\* re.search of the quoted form: the leftmost position that matches
RECURSIVE SearchQuoted(_, _, _)
SearchQuoted(s, i, key) ==
    IF i > Len(s) THEN <<>>
    ELSE IF QuotedAt(s, i, key) # <<>> THEN QuotedAt(s, i, key)
    ELSE SearchQuoted(s, i + 1, key)

\* re.search of the template form
RECURSIVE SearchTemplate(_, _, _)
SearchTemplate(s, i, key) ==
    IF i > Len(s) THEN <<>>
    ELSE IF TemplateAt(s, i, key) # <<>> THEN TemplateAt(s, i, key)
    ELSE SearchTemplate(s, i + 1, key)

\* re.search(r'variant:\s*["\']destructive["\']', inner) is not None
RECURSIVE SearchDestructive(_, _)
SearchDestructive(s, i) ==
    IF i > Len(s) THEN FALSE
    ELSE LET j == SkipSpace(s, i + 1) IN
         IF /\ At(s, i, "variant:")
            /\ j + 2 <= Len(s)
            /\ IsQuote(s[j]) /\ s[j + 1] = "destructive" /\ IsQuote(s[j + 2])
         THEN TRUE
         ELSE SearchDestructive(s, i + 1)

\* the title the callback builds: the template form first, then the quoted
\* form, then the description's forms; <<>> when the callback gives up
CallbackTitle(title_match, title_template_match, desc_match, desc_template_match) ==
    IF title_template_match # <<>> THEN title_template_match
    ELSE IF title_match # <<>> THEN title_match
    ELSE IF desc_template_match # <<>> THEN desc_template_match
    ELSE desc_match

\* the separate description the callback builds, <<>> for None
CallbackDescription(title_match, title_template_match, desc_match, desc_template_match) ==
    IF desc_template_match # <<>> /\ title_template_match = <<>> THEN desc_template_match
    ELSE IF desc_match # <<>> /\ title_match = <<>> THEN desc_match
    ELSE <<>>

\* the text the callback returns for the fields it built
BuildReplacement(is_error, title, description) ==
    IF is_error
    THEN IF description # <<>>
         THEN <<"showError", "(">> \o title \o <<",", " ">> \o description \o <<")">>
         ELSE <<"showError", "(">> \o title \o <<")">>
    ELSE IF description # <<>>
         THEN <<"showSuccess", "(">> \o title \o <<",", " ">> \o description \o <<")">>
         ELSE <<"showToast", "(">> \o title \o <<",", " ", "\"", "success", "\"", ")">>

\* replace_callback on a match: whole is group(0), inner is group(1).
\* [sub, text]: sub tells whether a replacement was built.
ReplaceCallback(whole, inner) ==
    LET title_match          == SearchQuoted(inner, 1, "title:")
        title_template_match == SearchTemplate(inner, 1, "title:")
        desc_match           == SearchQuoted(inner, 1, "description:")
        desc_template_match  == SearchTemplate(inner, 1, "description:")
        is_error             == SearchDestructive(inner, 1)
        title == CallbackTitle(title_match, title_template_match,
                               desc_match, desc_template_match)
        description == CallbackDescription(title_match, title_template_match,
                                           desc_match, desc_template_match)
    IN  IF title = <<>>
        THEN [sub |-> FALSE, text |-> whole]
        ELSE [sub |-> TRUE, text |-> BuildReplacement(is_error, title, description)]

\* re.sub(pattern, replace_callback, content) from position i
RECURSIVE SubToast(_, _)
SubToast(s, i) ==
    IF i > Len(s) THEN <<>>
    ELSE LET m == MatchCallAt(s, i) IN
         IF m.ok
         THEN ReplaceCallback(Slice(s, i, m.end), Slice(s, m.from, m.to)).text
                  \o SubToast(s, m.end)
         ELSE <<s[i]>> \o SubToast(s, i + 1)

replace_toast_multiline(content) == SubToast(content, 1)

\* the number of matches of the pattern for which the callback built a
\* replacement (the call sites the substitution rewrote)
RECURSIVE CountSubstituted(_, _)
CountSubstituted(s, i) ==
    IF i > Len(s) THEN 0
    ELSE LET m == MatchCallAt(s, i) IN
         IF m.ok
         THEN (IF ReplaceCallback(Slice(s, i, m.end), Slice(s, m.from, m.to)).sub
               THEN 1 ELSE 0) + CountSubstituted(s, m.end)
         ELSE CountSubstituted(s, i + 1)

----------------------------------------------------------------------------
(* The dependency-list substitutions and the counts of process_file        *)

\* re.sub(r',\s*toast\s*\]', ']', content)
RECURSIVE SubDepLast(_, _)
SubDepLast(s, i) ==
    IF i > Len(s) THEN <<>>
    ELSE LET j == SkipSpace(s, i + 1)
             k == SkipSpace(s, j + 1)
         IN  IF At(s, i, ",") /\ At(s, j, "toast") /\ At(s, k, "]")
             THEN <<"]">> \o SubDepLast(s, k + 1)
             ELSE <<s[i]>> \o SubDepLast(s, i + 1)

\* re.sub(r'\[\s*toast\s*,', '[', content)
RECURSIVE SubDepFirst(_, _)
SubDepFirst(s, i) ==
    IF i > Len(s) THEN <<>>
    ELSE LET j == SkipSpace(s, i + 1)
             k == SkipSpace(s, j + 1)
         IN  IF At(s, i, "[") /\ At(s, j, "toast") /\ At(s, k, ",")
             THEN <<"[">> \o SubDepFirst(s, k + 1)
             ELSE <<s[i]>> \o SubDepFirst(s, i + 1)

\* re.sub(r'\[\s*toast\s*\]', '[]', content)
RECURSIVE SubDepSole(_, _)
SubDepSole(s, i) ==
    IF i > Len(s) THEN <<>>
    ELSE LET j == SkipSpace(s, i + 1)
             k == SkipSpace(s, j + 1)
         IN  IF At(s, i, "[") /\ At(s, j, "toast") /\ At(s, k, "]")
             THEN <<"[", "]">> \o SubDepSole(s, k + 1)
             ELSE <<s[i]>> \o SubDepSole(s, i + 1)

\* the three substitutions in the order process_file applies them
CleanDeps(content) == SubDepSole(SubDepFirst(SubDepLast(content, 1), 1), 1)

\* the text process_file computes from the text it read
TransformText(content) == CleanDeps(replace_toast_multiline(content))

\* len(re.findall(r'toast\s*\(\s*\{', content)) from position i
RECURSIVE CountToast(_, _)
CountToast(s, i) ==
    IF i > Len(s) THEN 0
    ELSE IF OpenAt(s, i) # 0 THEN 1 + CountToast(s, OpenAt(s, i))
    ELSE CountToast(s, i + 1)

----------------------------------------------------------------------------
(* The warnings of process_file                                            *)

\* match.group(0)[:60]
SnippetLen == 60

\* "if i <= 3": the examples shown
MaxExamples == 3

\* the number of characters a token spells
Chars(t) == IF t = "BACKTICK" THEN 1 ELSE Len(t)

\* the first n characters of the text: whole tokens, and the head of the
\* token the cut falls in
RECURSIVE TakeChars(_, _)
TakeChars(s, n) ==
    IF s = <<>> \/ n = 0 THEN <<>>
    ELSE IF Chars(s[1]) <= n THEN <<s[1]>> \o TakeChars(Tail(s), n - Chars(s[1]))
    ELSE <<SubSeq(s[1], 1, n)>>

\* one entry of the warnings list: the message (its fixed words, written
\* without accents), the number in it, the snippet in it
Warn(kind, n, text) == [kind |-> kind, n |-> n, text |-> text]

\* re.finditer(r'toast\s*\(\s*\{[^}]*\}', content) from position i, numbered
\* from n: "Exemple n" for the first three matches
RECURSIVE Examples(_, _, _)
Examples(s, i, n) ==
    IF i > Len(s) THEN <<>>
    ELSE LET o == OpenAt(s, i)
             c == IF o = 0 THEN 0 ELSE IndexFrom(s, o, "}")
         IN  IF c # 0
             THEN (IF n <= MaxExamples
                   THEN <<Warn("Exemple", n, TakeChars(Slice(s, i, c + 1), SnippetLen))>>
                   ELSE <<>>) \o Examples(s, c + 1, n + 1)
             ELSE Examples(s, i + 1, n)

\* the warnings process_file appends when calls remain
ResidualWarnings(content) ==
    LET toast_count_after == CountToast(content, 1) IN
    IF toast_count_after > 0
    THEN <<Warn("Il reste", toast_count_after, <<>>)>> \o Examples(content, 1, 1)
    ELSE <<>>

----------------------------------------------------------------------------
(* update_app_tsx                                                          *)

\* an optional ";" at i
SkipSemi(s, i) == IF At(s, i, ";") THEN i + 1 ELSE i

\* \s*;?\s*\n? from i (each part takes all it can)
LineEnd(s, i) == SkipSpace(s, SkipSemi(s, SkipSpace(s, i)))

\* \s*from\s*["']module["']\s*;?\s*\n? from i: the position after the match,
\* 0 for no match
FromClause(s, i, module) ==
    LET f == SkipSpace(s, i)
        q == SkipSpace(s, f + 1)
    IN  IF /\ At(s, f, "from")
           /\ q + 2 <= Len(s)
           /\ IsQuote(s[q]) /\ s[q + 1] = module /\ IsQuote(s[q + 2])
        THEN LineEnd(s, q + 3)
        ELSE 0

\* the import of Toaster from the toaster module, matched at i
ImportToasterAt(s, i) ==
    LET b == SkipSpace(s, i + 1)
        t == SkipSpace(s, b + 1)
        e == SkipSpace(s, t + 1)
    IN  IF At(s, i, "import") /\ At(s, b, "{") /\ At(s, t, "Toaster") /\ At(s, e, "}")
        THEN FromClause(s, e + 1, "@/components/ui/toaster")
        ELSE 0

\* the import of Toaster as Sonner from the sonner module, matched at i
\* (\s+ around "as" needs a space)
ImportSonnerAt(s, i) ==
    LET b == SkipSpace(s, i + 1)
        t == SkipSpace(s, b + 1)
        a == SkipSpace(s, t + 1)
        n == SkipSpace(s, a + 1)
        e == SkipSpace(s, n + 1)
    IN  IF /\ At(s, i, "import") /\ At(s, b, "{") /\ At(s, t, "Toaster")
           /\ a > t + 1 /\ At(s, a, "as")
           /\ n > a + 1 /\ At(s, n, "Sonner") /\ At(s, e, "}")
        THEN FromClause(s, e + 1, "@/components/ui/sonner")
        ELSE 0

\* r'<Toaster\s*/>\s*\n?' or r'<Sonner\s*/>\s*\n?' matched at i
TagAt(s, i, tag) ==
    LET c == SkipSpace(s, i + 1) IN
    IF At(s, i, tag) /\ At(s, c, "/>") THEN SkipSpace(s, c + 1) ELSE 0

\* the position after the match of the named pattern at i, 0 for no match
AppMatchAt(which, s, i) ==
    CASE which = "import_toaster" -> ImportToasterAt(s, i)
      [] which = "import_sonner"  -> ImportSonnerAt(s, i)
      [] which = "tag_toaster"    -> TagAt(s, i, "<Toaster")
      [] which = "tag_sonner"     -> TagAt(s, i, "<Sonner")

\* re.sub(pattern, '', content) from position i
RECURSIVE SubDelete(_, _, _)
SubDelete(which, s, i) ==
    IF i > Len(s) THEN <<>>
    ELSE IF AppMatchAt(which, s, i) # 0 THEN SubDelete(which, s, AppMatchAt(which, s, i))
    ELSE <<s[i]>> \o SubDelete(which, s, i + 1)

\* the four substitutions of update_app_tsx in their order
TransformApp(content) ==
    SubDelete("tag_sonner",
        SubDelete("tag_toaster",
            SubDelete("import_sonner",
                SubDelete("import_toaster", content, 1), 1), 1), 1)

----------------------------------------------------------------------------
(* The input texts the specifications draw from                            *)

\* the longest dependency list of the inputs
MaxDeps == 3

\* the most fragments (calls, dependency lists) of an input text
MaxFrags == 2

\* the concatenation of the sequences of seqs, sep between neighbours
RECURSIVE JoinWith(_, _)
JoinWith(seqs, sep) ==
    IF seqs = <<>> THEN <<>>
    ELSE IF Len(seqs) = 1 THEN seqs[1]
    ELSE seqs[1] \o sep \o JoinWith(Tail(seqs), sep)

\* the sequences over S of length lo..hi
SeqsOf(S, lo, hi) == UNION {[1..k -> S] : k \in lo..hi}

\* s without its empty members
RECURSIVE NonEmpty(_)
NonEmpty(s) ==
    IF s = <<>> THEN <<>>
    ELSE IF s[1] = <<>> THEN NonEmpty(Tail(s))
    ELSE <<s[1]>> \o NonEmpty(Tail(s))

TitleForms == {"none", "quoted", "template", "interp"}
DescForms == {"none", "quoted", "template"}

\* a title field: absent, a quoted string, a template literal, a template
\* literal with an interpolation
TitleField(form) ==
    CASE form = "quoted"   -> <<"title:", " ", "\"", "Oops", "\"">>
      [] form = "template" -> <<"title:", " ", "BACKTICK", "Hello", "BACKTICK">>
      [] form = "interp"   -> <<"title:", " ", "BACKTICK", "Hello", " ", "$", "{",
                                "name", "}", "BACKTICK">>
      [] OTHER             -> <<>>

\* a description field: absent, a quoted string, a template literal
DescField(form) ==
    CASE form = "quoted"   -> <<"description:", " ", "\"", "Bad", "\"">>
      [] form = "template" -> <<"description:", " ", "BACKTICK", "Bye", "BACKTICK">>
      [] OTHER             -> <<>>

\* variant: "destructive", or no variant field
VariantField(destructive) ==
    IF destructive THEN <<"variant:", " ", "\"", "destructive", "\"">> ELSE <<>>

\* a field whose value is an object literal
MetaField(meta) ==
    IF meta THEN <<"meta:", " ", "{", " ", "a:", " ", "1", " ", "}">> ELSE <<>>

\* toast({ fields }) with the fields given; closed = FALSE leaves out the
\* closing brace and parenthesis
Call(title, desc, destructive, meta, closed) ==
    <<"toast", "(", "{", " ">>
    \o JoinWith(NonEmpty(<<TitleField(title), MetaField(meta), DescField(desc),
                           VariantField(destructive)>>), <<",", " ">>)
    \o (IF closed THEN <<" ", "}", ")">> ELSE <<>>)

Calls ==
    {Call(t, d, v, m, c) : t \in TitleForms, d \in DescForms,
                           v \in BOOLEAN, m \in BOOLEAN, c \in BOOLEAN}

\* [e1, e2, ...]
DepList(elems) == <<"[">> \o JoinWith([i \in 1..Len(elems) |-> <<elems[i]>>], <<",", " ">>) \o <<"]">>

DepLists == {DepList(e) : e \in SeqsOf({"toast", "x"}, 1, MaxDeps)}

Fragments == Calls \cup DepLists

\* the texts of at most MaxFrags fragments, one per line
Texts == {JoinWith(f, <<"\n">>) : f \in SeqsOf(Fragments, 0, MaxFrags)}

\* the empty text and the texts of one line: a closed call without an object
\* field, or a dependency list
SingleLines ==
    {<<>>}
    \cup {Call(t, d, v, FALSE, TRUE) \o <<"\n">> :
             t \in TitleForms, d \in DescForms, v \in BOOLEAN}
    \cup {l \o <<"\n">> : l \in DepLists}

\* the lines of App.tsx the two imports and the two tags make
AppImports ==
    <<"import", " ", "{", " ", "Toaster", " ", "}", " ", "from", " ",
      "\"", "@/components/ui/toaster", "\"", ";", "\n",
      "import", " ", "{", " ", "Toaster", " ", "as", " ", "Sonner", " ", "}", " ",
      "from", " ", "\"", "@/components/ui/sonner", "\"", ";", "\n">>

AppTags == <<" ", "<Toaster", " ", "/>", "\n", " ", "<Sonner", " ", "/>", "\n">>

\* App.tsx with or without the imports, with or without the tags
AppText(imports, tags) ==
    (IF imports THEN AppImports ELSE <<>>)
    \o <<"<App>", "\n">>
    \o (IF tags THEN AppTags ELSE <<>>)
    \o <<"</App>", "\n">>

AppTexts == {AppText(i, t) : i \in BOOLEAN, t \in BOOLEAN}

----------------------------------------------------------------------------
(* The run: main(), process_file, create_backup, update_app_tsx            *)

FRONTEND_DIR == "src"

\* the file list of the run (one path of the script's list)
FILES_TO_PROCESS == <<"pages/Tasks.tsx">>

\* FRONTEND_DIR / relative_path
PathOf(relative_path) == FRONTEND_DIR \o "/" \o relative_path

\* FRONTEND_DIR / "App.tsx"
AppFile == PathOf("App.tsx")

\* file_path.with_suffix(file_path.suffix + '.bak')
BackupPath(file_path) == file_path \o ".bak"

Targets == {PathOf(FILES_TO_PROCESS[i]) : i \in 1..Len(FILES_TO_PROCESS)} \cup {AppFile}

Paths == Targets \cup {BackupPath(p) : p \in Targets}

\* a file of the disk: absent, or present with the characters it holds; a
\* line ends with "\n" or with "\r\n" (one token)
NoFile == [exists |-> FALSE, text |-> <<>>]
File(text) == [exists |-> TRUE, text |-> text]

\* the tuple process_file returns; returned = FALSE before it has returned
Result(changed, warns, replaced) ==
    [returned |-> TRUE, changed |-> changed, warnings |-> warns,
     toasts_replaced |-> replaced]
NoResult ==
    [returned |-> FALSE, changed |-> FALSE, warnings |-> <<>>, toasts_replaced |-> 0]

\* the lists and the total main() keeps
EmptySummary ==
    [modified_files |-> <<>>, files_with_warnings |-> <<>>,
     total_toasts_replaced |-> 0, skipped_files |-> <<>>,
     perfectly_migrated |-> <<>>]

\* the most runs of the script in a behaviour
MaxRuns == 2

\* the longest prefix a failed or interrupted write leaves behind
MaxTorn == 2

VARIABLES
    DRY_RUN,            \* the configuration flags of the script
    BACKUP,
    linesep,            \* os.linesep of the platform the script runs on
    frontend_dir,       \* FRONTEND_DIR.exists()
    fs,                 \* the disk: path -> file
    pre,                \* the disk when the current run started
    run,                \* the number of the current run
    pc,                 \* the statement the script is at
    proc,               \* the function executing: process_file or update_app_tsx
    idx,                \* the position of main()'s loop in FILES_TO_PROCESS
    file_path,          \* the file the function works on
    content,            \* locals of process_file / update_app_tsx
    original_content,
    warnings,
    toasts_replaced,    \* stats['toasts_replaced']
    backup_text,        \* what create_backup read and is writing
    results,            \* path -> the tuple process_file returned for it
    app_updated,        \* what update_app_tsx returned
    summary,            \* main()'s lists
    faulted             \* an I/O error was raised in this run

config == <<DRY_RUN, BACKUP, linesep, frontend_dir>>
locals == <<content, original_content, warnings, toasts_replaced, backup_text>>
outputs == <<results, app_updated, summary>>
vars == <<DRY_RUN, BACKUP, linesep, frontend_dir, fs, pre, run, pc, proc, idx, file_path, content,
          original_content, warnings, toasts_replaced, backup_text, results,
          app_updated, summary, faulted>>

\* Path.read_text: the file is opened in text mode, which gives every line
\* end ("\r\n", one token here, or a lone "\r") as "\n"
ReadText(chars) ==
    [i \in 1..Len(chars) |->
       IF chars[i] \in {"\r\n", "\r"} THEN "\n" ELSE chars[i]]

\* Path.write_text: the file is opened in text mode, which writes every "\n"
\* as os.linesep
WriteText(text) ==
    [i \in 1..Len(text) |-> IF text[i] = "\n" THEN linesep ELSE text[i]]

\* a text as a file whose lines end with eol holds it
OnDisk(text, eol) ==
    [i \in 1..Len(text) |-> IF text[i] = "\n" THEN eol ELSE text[i]]

\* the state main() starts a run in, on the disk given
StartRun(disk) ==
    /\ pre = disk
    /\ pc = "main_start"
    /\ proc = "main"
    /\ idx = 1
    /\ file_path = AppFile
    /\ content = <<>>
    /\ original_content = <<>>
    /\ warnings = <<>>
    /\ toasts_replaced = 0
    /\ backup_text = <<>>
    /\ results = [p \in Targets \ {AppFile} |-> NoResult]
    /\ app_updated = [returned |-> FALSE, value |-> FALSE]
    /\ summary = EmptySummary
    /\ faulted = FALSE

\* Any flags, either platform; the listed file absent or holding at most one
\* line; App.tsx absent or one of its texts; the lines of the files end with
\* "\n" or with "\r\n"; the .bak files absent or left by an older run; the
\* directory there when a file in it is.
Init ==
    /\ DRY_RUN \in BOOLEAN
    /\ BACKUP \in BOOLEAN
    /\ linesep \in {"\n", "\r\n"}
    /\ frontend_dir \in BOOLEAN
    /\ run = 1
    /\ \E eol \in {"\n", "\r\n"},
          page \in {NoFile} \cup {File(t) : t \in SingleLines},
          app \in {NoFile} \cup {File(t) : t \in AppTexts},
          bak \in {NoFile, File(<<"old">>)} :
          fs = [p \in Paths |->
                  IF p = AppFile THEN [app EXCEPT !.text = OnDisk(@, eol)]
                  ELSE IF p \in Targets THEN [page EXCEPT !.text = OnDisk(@, eol)]
                  ELSE bak]
    /\ (\E p \in Paths : fs[p].exists) => frontend_dir
    /\ StartRun(fs)

\* The flags as the script sets them (DRY_RUN = False, BACKUP = True), a
\* platform and files with "\n" line ends; the listed file holds any text of
\* at most MaxFrags fragments.
InitTransform ==
    /\ DRY_RUN = FALSE
    /\ BACKUP = TRUE
    /\ linesep = "\n"
    /\ frontend_dir = TRUE
    /\ run = 1
    /\ \E t \in Texts :
          fs = [p \in Paths |->
                  IF p = AppFile THEN File(AppText(TRUE, TRUE))
                  ELSE IF p \in Targets THEN File(t)
                  ELSE NoFile]
    /\ StartRun(fs)

----------------------------------------------------------------------------
(* main()                                                                  *)

\* if not FRONTEND_DIR.exists(): return, before any file is looked at
MainStart ==
    /\ pc = "main_start"
    /\ pc' = IF frontend_dir THEN "main_loop" ELSE "done"
    /\ UNCHANGED <<config, fs, pre, run, proc, idx, file_path, locals, outputs,
                   faulted>>

\* for relative_path in FILES_TO_PROCESS: call process_file (its first two
\* statements set warnings and stats); after the loop call update_app_tsx
MainLoop ==
    /\ pc = "main_loop"
    /\ IF idx <= Len(FILES_TO_PROCESS)
       THEN /\ file_path' = PathOf(FILES_TO_PROCESS[idx])
            /\ proc' = "process_file"
            /\ pc' = "pf_exists"
       ELSE /\ file_path' = AppFile
            /\ proc' = "update_app_tsx"
            /\ pc' = "ua_exists"
    /\ warnings' = <<>>
    /\ toasts_replaced' = 0
    /\ UNCHANGED <<config, fs, pre, run, idx, content, original_content,
                   backup_text, outputs, faulted>>

\* any('Il reste' in w for w in warnings)
HasRemaining(warns) == \E i \in 1..Len(warns) : warns[i].kind = "Il reste"

\* the body of main()'s loop after process_file has returned
MainCollect ==
    /\ pc = "main_collect"
    /\ LET relative_path == FILES_TO_PROCESS[idx]
           r == results[file_path]
       IN  summary' =
             IF ~fs[file_path].exists
             THEN [summary EXCEPT !.skipped_files = Append(@, relative_path)]
             ELSE IF r.changed
             THEN LET counted ==
                        [summary EXCEPT
                           !.modified_files = Append(@, relative_path),
                           !.total_toasts_replaced = @ + r.toasts_replaced]
                  IN  IF HasRemaining(r.warnings)
                      THEN [counted EXCEPT !.files_with_warnings =
                                Append(@, <<relative_path, r.warnings>>)]
                      ELSE [counted EXCEPT !.perfectly_migrated =
                                Append(@, relative_path)]
             ELSE summary
    /\ idx' = idx + 1
    /\ proc' = "main"
    /\ pc' = "main_loop"
    /\ UNCHANGED <<config, fs, pre, run, file_path, locals, results,
                   app_updated, faulted>>

----------------------------------------------------------------------------
(* process_file                                                            *)

\* process_file returns the tuple r
ReturnResult(r) ==
    /\ results' = [results EXCEPT ![file_path] = r]
    /\ pc' = "main_collect"

\* if not file_path.exists(): return False, ["Fichier non trouve"], stats
PF_Exists ==
    /\ pc = "pf_exists"
    /\ IF fs[file_path].exists
       THEN pc' = "pf_read" /\ UNCHANGED results
       ELSE ReturnResult(Result(FALSE, <<Warn("Fichier non trouve", 0, <<>>)>>,
                                toasts_replaced))
    /\ UNCHANGED <<config, fs, pre, run, proc, idx, file_path, locals,
                   app_updated, summary, faulted>>

\* content = file_path.read_text(); original_content = content
PF_Read ==
    /\ pc = "pf_read"
    /\ content' = ReadText(fs[file_path].text)
    /\ original_content' = ReadText(fs[file_path].text)
    /\ pc' = "pf_transform"
    /\ UNCHANGED <<config, fs, pre, run, proc, idx, file_path, warnings,
                   toasts_replaced, backup_text, outputs, faulted>>

\* the count before, the four substitutions, the count after, the warnings
PF_Transform ==
    /\ pc = "pf_transform"
    /\ LET toast_count_before == CountToast(content, 1)
           new_content == TransformText(content)
           toast_count_after == CountToast(new_content, 1)
       IN  /\ content' = new_content
           /\ toasts_replaced' = toast_count_before - toast_count_after
           /\ warnings' = warnings \o ResidualWarnings(new_content)
    /\ pc' = "pf_decide"
    /\ UNCHANGED <<config, fs, pre, run, proc, idx, file_path,
                   original_content, backup_text, outputs, faulted>>

\* the guard "if not DRY_RUN:" left out
WritesAlways == TRUE

\* "if not DRY_RUN:" of process_file and of update_app_tsx
WritesEnabled == ~DRY_RUN

\* if content == original_content: return False, ["Aucun changement"], stats
\* if not DRY_RUN: create_backup, write_text;  return True, warnings, stats
PF_Decide ==
    /\ pc = "pf_decide"
    /\ IF content = original_content
       THEN ReturnResult(Result(FALSE, <<Warn("Aucun changement necessaire", 0, <<>>)>>,
                                toasts_replaced))
       ELSE IF WritesEnabled
       THEN pc' = "cb_read" /\ UNCHANGED results
       ELSE ReturnResult(Result(TRUE, warnings, toasts_replaced))
    /\ UNCHANGED <<config, fs, pre, run, proc, idx, file_path, locals,
                   app_updated, summary, faulted>>

\* return True, warnings, stats (after the write)
PF_Return ==
    /\ pc = "pf_return"
    /\ ReturnResult(Result(TRUE, warnings, toasts_replaced))
    /\ UNCHANGED <<config, fs, pre, run, proc, idx, file_path, locals,
                   app_updated, summary, faulted>>

----------------------------------------------------------------------------
(* create_backup and the write of the file                                 *)

\* "if BACKUP and file_path.exists():" of create_backup
BackupWanted(path) == BACKUP /\ fs[path].exists

\* create_backup: the guard and file_path.read_text()
CB_Read ==
    /\ pc = "cb_read"
    /\ IF BackupWanted(file_path)
       THEN backup_text' = ReadText(fs[file_path].text) /\ pc' = "cb_open"
       ELSE UNCHANGED backup_text /\ pc' = "write_open"
    /\ UNCHANGED <<config, fs, pre, run, proc, idx, file_path, content,
                   original_content, warnings, toasts_replaced, outputs, faulted>>

\* backup_path.write_text: the open creates or truncates the .bak
CB_Open ==
    /\ pc = "cb_open"
    /\ fs' = [fs EXCEPT ![BackupPath(file_path)] = File(<<>>)]
    /\ pc' = "cb_write"
    /\ UNCHANGED <<config, pre, run, proc, idx, file_path, locals, outputs, faulted>>

\* backup_path.write_text: the text is written and the .bak closed
CB_Write ==
    /\ pc = "cb_write"
    /\ fs' = [fs EXCEPT ![BackupPath(file_path)] = File(WriteText(backup_text))]
    /\ pc' = "write_open"
    /\ UNCHANGED <<config, pre, run, proc, idx, file_path, locals, outputs, faulted>>

\* file_path.write_text(content): the open truncates the file
WriteOpen ==
    /\ pc = "write_open"
    /\ fs' = [fs EXCEPT ![file_path] = File(<<>>)]
    /\ pc' = "write_data"
    /\ UNCHANGED <<config, pre, run, proc, idx, file_path, locals, outputs, faulted>>

\* file_path.write_text(content): the text is written and the file closed
WriteData ==
    /\ pc = "write_data"
    /\ fs' = [fs EXCEPT ![file_path] = File(WriteText(content))]
    /\ pc' = IF proc = "process_file" THEN "pf_return" ELSE "ua_return"
    /\ UNCHANGED <<config, pre, run, proc, idx, file_path, locals, outputs, faulted>>

----------------------------------------------------------------------------
(* update_app_tsx                                                          *)

\* update_app_tsx returns value
ReturnApp(value) ==
    /\ app_updated' = [returned |-> TRUE, value |-> value]
    /\ pc' = "done"

\* if not app_file.exists(): return False
UA_Exists ==
    /\ pc = "ua_exists"
    /\ IF fs[file_path].exists
       THEN pc' = "ua_read" /\ UNCHANGED app_updated
       ELSE ReturnApp(FALSE)
    /\ UNCHANGED <<config, fs, pre, run, proc, idx, file_path, locals,
                   results, summary, faulted>>

\* content = app_file.read_text(); original_content = content
UA_Read ==
    /\ pc = "ua_read"
    /\ content' = ReadText(fs[file_path].text)
    /\ original_content' = ReadText(fs[file_path].text)
    /\ pc' = "ua_transform"
    /\ UNCHANGED <<config, fs, pre, run, proc, idx, file_path, warnings,
                   toasts_replaced, backup_text, outputs, faulted>>

\* the four re.sub of update_app_tsx
UA_Transform ==
    /\ pc = "ua_transform"
    /\ content' = TransformApp(content)
    /\ pc' = "ua_decide"
    /\ UNCHANGED <<config, fs, pre, run, proc, idx, file_path, original_content,
                   warnings, toasts_replaced, backup_text, outputs, faulted>>

\* if content != original_content: (if not DRY_RUN: backup, write) return True
\* return False
UA_Decide ==
    /\ pc = "ua_decide"
    /\ IF content = original_content
       THEN ReturnApp(FALSE)
       ELSE IF WritesEnabled
       THEN pc' = "cb_read" /\ UNCHANGED app_updated
       ELSE ReturnApp(TRUE)
    /\ UNCHANGED <<config, fs, pre, run, proc, idx, file_path, locals,
                   results, summary, faulted>>

\* return True (after the write)
UA_Return ==
    /\ pc = "ua_return"
    /\ ReturnApp(TRUE)
    /\ UNCHANGED <<config, fs, pre, run, proc, idx, file_path, locals,
                   results, summary, faulted>>

----------------------------------------------------------------------------
(* I/O errors, a crash of the process, a second run                        *)

Min(a, b) == IF a <= b THEN a ELSE b

\* the statements that read or write a file
IOStatements ==
    {"pf_read", "ua_read", "cb_read", "cb_open", "cb_write", "write_open", "write_data"}

\* the disks a write_text that stops at this statement can leave: during the
\* write of the text a prefix of it is in the file that was opened
TornDisks ==
    IF pc = "cb_write"
    THEN {[fs EXCEPT ![BackupPath(file_path)] =
                 File(SubSeq(WriteText(backup_text), 1, k))] :
             k \in 0..Min(MaxTorn, Len(backup_text))}
    ELSE IF pc = "write_data"
    THEN {[fs EXCEPT ![file_path] = File(SubSeq(WriteText(content), 1, k))] :
             k \in 0..Min(MaxTorn, Len(content))}
    ELSE {fs}

\* The statement raises (OSError and the like).  process_file's handler
\* returns False, ["Erreur: ..."], stats; update_app_tsx's returns False.
IOError ==
    /\ pc \in IOStatements
    /\ pc = "cb_read" => BackupWanted(file_path)
    /\ fs' \in TornDisks
    /\ faulted' = TRUE
    /\ IF proc = "process_file"
       THEN /\ ReturnResult(Result(FALSE, <<Warn("Erreur", 0, <<>>)>>, toasts_replaced))
            /\ UNCHANGED app_updated
       ELSE /\ ReturnApp(FALSE)
            /\ UNCHANGED results
    /\ UNCHANGED <<config, pre, run, proc, idx, file_path, locals, summary>>

\* the process is killed (or the machine stops) at any statement
Crash ==
    /\ pc \notin {"done", "crashed"}
    /\ fs' \in TornDisks
    /\ pc' = "crashed"
    /\ UNCHANGED <<config, pre, run, proc, idx, file_path, locals, outputs, faulted>>

\* the script is run again on the disk the last run left
Rerun ==
    /\ pc = "done"
    /\ run < MaxRuns
    /\ run' = run + 1
    /\ pre' = fs
    /\ pc' = "main_start"
    /\ proc' = "main"
    /\ idx' = 1
    /\ file_path' = AppFile
    /\ content' = <<>>
    /\ original_content' = <<>>
    /\ warnings' = <<>>
    /\ toasts_replaced' = 0
    /\ backup_text' = <<>>
    /\ results' = [p \in Targets \ {AppFile} |-> NoResult]
    /\ app_updated' = [returned |-> FALSE, value |-> FALSE]
    /\ summary' = EmptySummary
    /\ faulted' = FALSE
    /\ UNCHANGED <<config, fs>>

----------------------------------------------------------------------------
(* The specifications                                                      *)

\* one run of the script, with I/O errors and crashes
Next ==
    \/ MainStart \/ MainLoop \/ MainCollect
    \/ PF_Exists \/ PF_Read \/ PF_Transform \/ PF_Decide \/ PF_Return
    \/ CB_Read \/ CB_Open \/ CB_Write \/ WriteOpen \/ WriteData
    \/ UA_Exists \/ UA_Read \/ UA_Transform \/ UA_Decide \/ UA_Return
    \/ IOError \/ Crash

Spec == Init /\ [][Next]_vars

\* runs of the script that meet no I/O error and no crash, one after the other
NextTransform ==
    \/ MainStart \/ MainLoop \/ MainCollect
    \/ PF_Exists \/ PF_Read \/ PF_Transform \/ PF_Decide \/ PF_Return
    \/ CB_Read \/ CB_Open \/ CB_Write \/ WriteOpen \/ WriteData
    \/ UA_Exists \/ UA_Read \/ UA_Transform \/ UA_Decide \/ UA_Return
    \/ Rerun

SpecTransform == InitTransform /\ [][NextTransform]_vars

----------------------------------------------------------------------------
(* The claims                                                              *)

\* the listed file
Page == PathOf(FILES_TO_PROCESS[1])

\* process_file has computed content from original_content
Transformed == pc = "pf_decide" /\ proc = "process_file"

\* the literal of a field: the field without its key and the space
Literal(field) == SubSeq(field, 3, Len(field))

TwoArgs(name, a, b) == <<name, "(">> \o a \o <<",", " ">> \o b \o <<")">>
OneArg(name, a) == <<name, "(">> \o a \o <<")">>
ToastSuccess(a) == <<"showToast", "(">> \o a \o <<",", " ", "\"", "success", "\"", ")">>

NoSpace(s) == SelectSeq(s, LAMBDA z : ~IsSpace(z))
WithoutToast(e) == SelectSeq(e, LAMBDA z : z # "toast")

\* C1: the transform of process_file is idempotent: applied to its own
\* output it gives the same text, and a second run on the text the first run
\* wrote reports changed = False.
C1_Idempotent ==
    /\ Transformed => TransformText(content) = content
    /\ (run >= 2 /\ results[Page].returned) => ~results[Page].changed

\* C2: a call with a title and a description (quoted or template, in any
\* combination) becomes showError(title, description) when destructive and
\* showSuccess(title, description) otherwise.
C2_BothCarried ==
    Transformed =>
      \A t \in {"quoted", "template"}, d \in {"quoted", "template"}, v \in BOOLEAN :
        original_content = Call(t, d, v, FALSE, TRUE) =>
          content = TwoArgs(IF v THEN "showError" ELSE "showSuccess",
                            Literal(TitleField(t)), Literal(DescField(d)))

\* C3: a call with a description and no title becomes a one-argument call
\* on the description: showError(d) when destructive, showToast(d, "success")
\* otherwise.
C3_Promotion ==
    Transformed =>
      \A d \in {"quoted", "template"}, v \in BOOLEAN :
        original_content = Call("none", d, v, FALSE, TRUE) =>
          content = IF v THEN OneArg("showError", Literal(DescField(d)))
                    ELSE ToastSuccess(Literal(DescField(d)))

\* C4: a call whose body holds nested braces (an object-literal field, an
\* interpolation in a template literal) is matched up to the balancing brace
\* and rewritten as a whole; a template-literal title is the first argument
\* verbatim.
C4_Balanced ==
    Transformed =>
      \A t \in {"quoted", "template", "interp"}, d \in DescForms,
         v \in BOOLEAN, m \in BOOLEAN :
        (original_content = Call(t, d, v, m, TRUE) /\ (m \/ t = "interp")) =>
          /\ content[1] \in {"showError", "showSuccess", "showToast"}
          /\ CountToast(content, 1) = 0
          /\ content[Len(content)] = ")"
          /\ t \in {"template", "interp"} =>
               SubSeq(content, 3, 2 + Len(Literal(TitleField(t)))) = Literal(TitleField(t))

\* the calls of the inputs that have no closing brace (and no inner brace)
UnbalancedCalls ==
    {Call(t, d, v, FALSE, FALSE) :
        t \in {"none", "quoted", "template"}, d \in DescForms, v \in BOOLEAN}

\* the closed calls without inner braces that carry a title or a description
WellFormedCalls ==
    {Call(t, d, v, FALSE, TRUE) :
        t \in {"none", "quoted", "template"}, d \in DescForms, v \in BOOLEAN}
    \ {Call("none", "none", v, FALSE, TRUE) : v \in BOOLEAN}

\* C5: a toast({ candidate without a balancing brace is left untouched and
\* warned about, and a well-formed call before or after it in the file is
\* rewritten as it is on its own.
C5_UnbalancedIsolated ==
    Transformed =>
      \A U \in UnbalancedCalls, W \in WellFormedCalls :
        /\ original_content = U \o <<"\n">> \o W =>
             /\ content = U \o <<"\n">> \o TransformText(W)
             /\ HasRemaining(warnings)
        /\ original_content = W \o <<"\n">> \o U =>
             /\ content = TransformText(W) \o <<"\n">> \o U
             /\ HasRemaining(warnings)

\* the closed calls with neither a title nor a description
NeitherCalls == {Call("none", "none", v, m, TRUE) : v \in BOOLEAN, m \in BOOLEAN}

\* C6: a call with neither a title nor a description is left unchanged in the
\* file, and the tuple process_file returns holds a warning about the call
\* that remains, also when nothing else in the file is touched.
C6_UnmatchedWarned ==
    (results[Page].returned /\ ~faulted) =>
      \A N \in NeitherCalls :
        pre[Page] = File(N) =>
          /\ fs[Page] = File(N)
          /\ HasRemaining(results[Page].warnings)

\* C7: a bracketed list that holds toast as its sole, last, first or middle
\* element comes out as the list without it ([toast] -> [], [toast, x] -> [x],
\* [x, toast] -> [x]); spaces are not compared.
C7_DepListCleaned ==
    Transformed =>
      \A e \in SeqsOf({"toast", "x"}, 1, MaxDeps) :
        (original_content = DepList(e) /\ Len(WithoutToast(e)) = Len(e) - 1) =>
          NoSpace(content) = NoSpace(DepList(WithoutToast(e)))

\* C10: stats['toasts_replaced'] is not negative and is the number of call
\* sites the substitution replaced by a showError/showSuccess/showToast call.
C10_ReplacedCount ==
    Transformed =>
      /\ toasts_replaced >= 0
      /\ toasts_replaced = CountSubstituted(original_content, 1)

\* C8: with BACKUP = True and DRY_RUN = False, at every point of the run (a
\* crash or a failed write included) the content a target file held when the
\* run started is in the file or in its .bak: the file is overwritten only
\* after the .bak holds that content in full, and a failed backup leaves the
\* file as it was.
C8_BackupThenWrite ==
    (BACKUP /\ ~DRY_RUN) =>
      \A p \in Targets :
        pre[p].exists => (fs[p] = pre[p] \/ fs[BackupPath(p)] = pre[p])

\* C8, of the text and not of the characters: the same with two files taken
\* as equal when read_text returns the same text for them (their line ends
\* apart).
C8_TextPreserved ==
    (BACKUP /\ ~DRY_RUN) =>
      \A p \in Targets :
        pre[p].exists =>
          \/ fs[p].exists /\ ReadText(fs[p].text) = ReadText(pre[p].text)
          \/ /\ fs[BackupPath(p)].exists
             /\ ReadText(fs[BackupPath(p)].text) = ReadText(pre[p].text)

\* the process died while the file was being overwritten, its backup complete
C8_TextWitness ==
    /\ BACKUP /\ ~DRY_RUN
    /\ pc = "crashed"
    /\ pre[Page].exists
    /\ ReadText(fs[Page].text) # ReadText(pre[Page].text)
    /\ fs[BackupPath(Page)].exists
    /\ ReadText(fs[BackupPath(Page)].text) = ReadText(pre[Page].text)

\* the tuple process_file returns for a file, as a function of the file alone
ExpectedResult(file) ==
    IF ~file.exists
    THEN Result(FALSE, <<Warn("Fichier non trouve", 0, <<>>)>>, 0)
    ELSE LET text == ReadText(file.text)
             out == TransformText(text)
             replaced == CountToast(text, 1) - CountToast(out, 1)
         IN  IF out = text
             THEN Result(FALSE, <<Warn("Aucun changement necessaire", 0, <<>>)>>, replaced)
             ELSE Result(TRUE, ResidualWarnings(out), replaced)

\* what update_app_tsx returns for a file, as a function of the file alone
ExpectedApp(file) ==
    file.exists /\ TransformApp(ReadText(file.text)) # ReadText(file.text)

\* C9: with DRY_RUN = True no file and no .bak is created or written,
\* whatever BACKUP is; and what process_file and update_app_tsx return is
\* decided by the text of the file alone, so it is what a live run that meets
\* no I/O error returns for it.
C9_DryRunWritesNothing ==
    /\ DRY_RUN => fs = pre
    /\ ~faulted =>
         /\ \A p \in Targets \ {AppFile} :
              results[p].returned => results[p] = ExpectedResult(pre[p])
         /\ app_updated.returned => app_updated.value = ExpectedApp(pre[AppFile])

\* a dry run has returned changed = True for the listed file and for App.tsx
C9_Witness ==
    /\ DRY_RUN
    /\ pc = "done"
    /\ results[Page].returned /\ results[Page].changed
    /\ app_updated.returned /\ app_updated.value
====
